---- MODULE Spec2Model ----
(***************************************************************************)
(* Model of the rating normalizer, the average rating, the merge of the    *)
(* two scraped tables and the scraper's main (GTI/code/                    *)
(* scrape_bond_data.py), the rating grades (GTI/code/                      *)
(* generate_ratings_table.py), the scatter markers and label placement     *)
(* loops of the two plots (Code/visualize_bond_data.py) and the download   *)
(* of the governance indicators (Code/wgi_correlation_complete.py).        *)
(*                                                                         *)
(* Strings are sequences of one-character strings.  Every rating score and *)
(* every y coordinate is an exact rational, written as an integer number   *)
(* of thirtieths: the score 22 is 660, the outlook modifier 1/3 is 10,     *)
(* the vertical gaps 0.8 and 0.6 are 24 and 18.  A spread is an integer    *)
(* number of basis points and an average rating, which the code rounds to  *)
(* two decimals, an integer number of hundredths.  Python's None is the    *)
(* empty tuple and a present number v is the one-element tuple <<v>>.      *)
(* Arithmetic is exact: the rounding of IEEE doubles (0.8, 0.6 and 1/3 are *)
(* not representable) is not modelled, so a comparison of two values that  *)
(* are exactly a gap apart is decided as in the rationals.                 *)
(***************************************************************************)
EXTENDS Integers, Sequences, FiniteSets, TLC

VARIABLES
    rating_text,     \* the rating cell handed to convert_rating_to_numeric
    agency,          \* the agency whose dictionary is in use
    base_rating,     \* extract_base_rating(rating_text)
    numeric,         \* convert_rating_to_numeric(rating_text, rating_dict)
    renormalized,    \* convert_rating_to_numeric(base_rating, rating_dict)
    variant,         \* which plot function runs: "full" or "investment_grade"
    df,              \* the rows of the merged data frame, in file order
    country_data,    \* the (x, y, ctry) list of the plot function
    used_positions,  \* the (lx, ly) list of the plot function
    rng,             \* the offsets the plot function's generator yields
    scatter,         \* the (x, y) of the scatter markers drawn
    first_run,       \* what an earlier run of the plot function drew
    driver,          \* the WebDriver of the scraper's main
    spread_df,       \* what scrape_bond_spreads returned
    ratings_df,      \* what scrape_credit_ratings returned
    merged_df,       \* what merge_datasets returned
    calls,           \* the calls the scraper's main has made, in order
    requested,       \* the indicators download_wgi_data has requested
    all_data,        \* the records download_wgi_data has collected
    wgi_df,          \* what download_wgi_data returned
    pc               \* position of the running script

nvars == <<rating_text, agency, base_rating, numeric, renormalized>>

lvars == <<variant, df, country_data, used_positions, rng, scatter, first_run>>

mvars == <<driver, spread_df, ratings_df, merged_df, calls>>

wvars == <<requested, all_data, wgi_df>>

vars == <<nvars, lvars, mvars, wvars, pc>>

(***************************************************************************)
(* Bounds of the explored inputs.                                          *)
(***************************************************************************)
MaxLen == 3
MaxGap == 5
MaxPad == 1
MaxRows == 3
MaxRunRows == 2
MaxCrowdedRows == 4
MaxTableRows == 2
MaxRecords == 1

(***************************************************************************)
(* Python values and string primitives.                                    *)
(***************************************************************************)
None == <<>>

Some(v) == <<v>>

Whitespace == {" ", "\t", "\n", "\r"}

Letters ==
    {"A","B","C","D","E","F","G","H","I","J","K","L","M",
     "N","O","P","Q","R","S","T","U","V","W","X","Y","Z",
     "a","b","c","d","e","f","g","h","i","j","k","l","m",
     "n","o","p","q","r","s","t","u","v","w","x","y","z"}

\* s[i .. i+Len(sub)-1] = sub
MatchesAt(s, sub, i) ==
    /\ i + Len(sub) - 1 <= Len(s)
    /\ \A k \in 1..Len(sub) : s[i + k - 1] = sub[k]

\* Python: sub in s
Contains(s, sub) == \E i \in 1..(Len(s) - Len(sub) + 1) : MatchesAt(s, sub, i)

\* Python: s.replace(old, '') for a non-empty old
RECURSIVE Replace(_, _)
Replace(s, old) ==
    IF s = <<>> THEN <<>>
    ELSE IF MatchesAt(s, old, 1)
         THEN Replace(SubSeq(s, Len(old) + 1, Len(s)), old)
         ELSE <<Head(s)>> \o Replace(Tail(s), old)

RECURSIVE LStrip(_)
LStrip(s) ==
    IF s # <<>> /\ Head(s) \in Whitespace THEN LStrip(Tail(s)) ELSE s

RECURSIVE RStrip(_)
RStrip(s) ==
    IF s # <<>> /\ s[Len(s)] \in Whitespace
    THEN RStrip(SubSeq(s, 1, Len(s) - 1))
    ELSE s

\* Python: s.strip()
Strip(s) == RStrip(LStrip(s))

(***************************************************************************)
(* The literals of the source.                                             *)
(***************************************************************************)
NA == <<"N","/","A">>
DASH == <<"-">>
NR == <<"N","R">>
SD == <<"S","D">>
RD == <<"R","D">>
DEFAULT_D == <<"D">>

UPGRADE == <<"[","u","p","g","r","a","d","e","]">>
DOWNGRADE == <<"[","d","o","w","n","g","r","a","d","e","]">>
SPACED_UPGRADE == <<" "," "," "," ">> \o UPGRADE
SPACED_DOWNGRADE == <<" "," "," "," ">> \o DOWNGRADE

(***************************************************************************)
(* Rating conversion dictionaries.                                         *)
(***************************************************************************)
SP_RATINGS ==
    (<<"A","A","A">> :> 22) @@ (<<"A","A","+">> :> 21) @@ (<<"A","A">> :> 20)
    @@ (<<"A","A","-">> :> 19)
    @@ (<<"A","+">> :> 18) @@ (<<"A">> :> 17) @@ (<<"A","-">> :> 16)
    @@ (<<"B","B","B","+">> :> 15) @@ (<<"B","B","B">> :> 14)
    @@ (<<"B","B","B","-">> :> 13)
    @@ (<<"B","B","+">> :> 12) @@ (<<"B","B">> :> 11) @@ (<<"B","B","-">> :> 10)
    @@ (<<"B","+">> :> 9) @@ (<<"B">> :> 8) @@ (<<"B","-">> :> 7)
    @@ (<<"C","C","C","+">> :> 6) @@ (<<"C","C","C">> :> 5)
    @@ (<<"C","C","C","-">> :> 4)
    @@ (<<"C","C">> :> 3) @@ (<<"C">> :> 2) @@ (<<"D">> :> 1)

MOODYS_RATINGS ==
    (<<"A","a","a">> :> 22) @@ (<<"A","a","1">> :> 21) @@ (<<"A","a","2">> :> 20)
    @@ (<<"A","a","3">> :> 19)
    @@ (<<"A","1">> :> 18) @@ (<<"A","2">> :> 17) @@ (<<"A","3">> :> 16)
    @@ (<<"B","a","a","1">> :> 15) @@ (<<"B","a","a","2">> :> 14)
    @@ (<<"B","a","a","3">> :> 13)
    @@ (<<"B","a","1">> :> 12) @@ (<<"B","a","2">> :> 11) @@ (<<"B","a","3">> :> 10)
    @@ (<<"B","1">> :> 9) @@ (<<"B","2">> :> 8) @@ (<<"B","3">> :> 7)
    @@ (<<"C","a","a","1">> :> 6) @@ (<<"C","a","a","2">> :> 5)
    @@ (<<"C","a","a","3">> :> 4)
    @@ (<<"C","a">> :> 3) @@ (<<"C">> :> 1)

\* FITCH_RATINGS with 'D': 2 typed for 'D': 1
FITCH_RATINGS_typo == [SP_RATINGS EXCEPT ![<<"D">>] = 2]

FITCH_RATINGS ==
    (<<"A","A","A">> :> 22) @@ (<<"A","A","+">> :> 21) @@ (<<"A","A">> :> 20)
    @@ (<<"A","A","-">> :> 19)
    @@ (<<"A","+">> :> 18) @@ (<<"A">> :> 17) @@ (<<"A","-">> :> 16)
    @@ (<<"B","B","B","+">> :> 15) @@ (<<"B","B","B">> :> 14)
    @@ (<<"B","B","B","-">> :> 13)
    @@ (<<"B","B","+">> :> 12) @@ (<<"B","B">> :> 11) @@ (<<"B","B","-">> :> 10)
    @@ (<<"B","+">> :> 9) @@ (<<"B">> :> 8) @@ (<<"B","-">> :> 7)
    @@ (<<"C","C","C","+">> :> 6) @@ (<<"C","C","C">> :> 5)
    @@ (<<"C","C","C","-">> :> 4)
    @@ (<<"C","C">> :> 3) @@ (<<"C">> :> 2) @@ (<<"D">> :> 1)

(***************************************************************************)
(* RATING_GRADES of generate_ratings_table.py.                             *)
(***************************************************************************)
Grade(sp, moodys, range) ==
    ("S&P" :> sp) @@ ("Moody's" :> moodys) @@ ("range" :> range)

RATING_GRADES ==
    ("Prime" :> Grade({<<"A","A","A">>}, {<<"A","a","a">>}, <<22, 22>>))
    @@ ("High Medium Grade" :>
          Grade({<<"A","A","+">>, <<"A","A">>, <<"A","A","-">>},
                {<<"A","a","1">>, <<"A","a","2">>, <<"A","a","3">>}, <<19, 21>>))
    @@ ("Upper Medium Grade" :>
          Grade({<<"A","+">>, <<"A">>, <<"A","-">>},
                {<<"A","1">>, <<"A","2">>, <<"A","3">>}, <<16, 18>>))
    @@ ("Lower Medium Grade" :>
          Grade({<<"B","B","B","+">>, <<"B","B","B">>, <<"B","B","B","-">>},
                {<<"B","a","a","1">>, <<"B","a","a","2">>, <<"B","a","a","3">>},
                <<13, 15>>))
    @@ ("Speculative" :>
          Grade({<<"B","B","+">>, <<"B","B">>, <<"B","B","-">>},
                {<<"B","a","1">>, <<"B","a","2">>, <<"B","a","3">>}, <<10, 12>>))
    @@ ("Highly Speculative" :>
          Grade({<<"B","+">>, <<"B">>, <<"B","-">>},
                {<<"B","1">>, <<"B","2">>, <<"B","3">>}, <<7, 9>>))
    @@ ("Substantial Risk" :>
          Grade({<<"C","C","C","+">>, <<"C","C","C">>, <<"C","C","C","-">>},
                {<<"C","a","a","1">>, <<"C","a","a","2">>, <<"C","a","a","3">>},
                <<4, 6>>))
    @@ ("Extremely Speculative" :>
          Grade({<<"C","C">>, <<"C">>}, {<<"C","a">>}, <<2, 3>>))
    @@ ("In Default" :> Grade({<<"D">>}, {<<"C">>}, <<1, 1>>))

\* rating_mappings of scrape_credit_ratings: agency -> dictionary
Agencies == {"S&P", "Moody's", "Fitch"}

\* rating_mappings with the S&P dictionary pasted into the Moody's entry
rating_mappings_pasted(a) ==
    CASE a = "S&P" -> SP_RATINGS
      [] a = "Moody's" -> SP_RATINGS
      [] a = "Fitch" -> FITCH_RATINGS

rating_mappings(a) ==
    CASE a = "S&P" -> SP_RATINGS
      [] a = "Moody's" -> MOODYS_RATINGS
      [] a = "Fitch" -> FITCH_RATINGS

(***************************************************************************)
(* re.search(r'([A-Za-z]{1,3}[\+\-]?[123]?)', s): the leftmost match       *)
(* starts at the first letter of s; every quantifier is greedy and what    *)
(* follows the letters is optional, so no backtracking ever shortens it.   *)
(***************************************************************************)
FirstLetter(s) ==
    IF \E i \in 1..Len(s) : s[i] \in Letters
    THEN CHOOSE i \in 1..Len(s) :
            /\ s[i] \in Letters
            /\ \A j \in 1..(i - 1) : s[j] \notin Letters
    ELSE 0

\* number of letters the {1,3} group takes from position i
LetterRun(s, i) ==
    IF i + 1 <= Len(s) /\ s[i + 1] \in Letters
    THEN IF i + 2 <= Len(s) /\ s[i + 2] \in Letters THEN 3 ELSE 2
    ELSE 1

\* the match object: None, or <<group(1)>>
re_search_rating(s) ==
    LET i == FirstLetter(s) IN
    IF i = 0 THEN None
    ELSE LET j == i + LetterRun(s, i)
             k == IF j <= Len(s) /\ s[j] \in {"+", "-"} THEN j + 1 ELSE j
             e == IF k <= Len(s) /\ s[k] \in {"1", "2", "3"} THEN k + 1 ELSE k
         IN  Some(SubSeq(s, i, e - 1))

(***************************************************************************)
(* extract_base_rating                                                     *)
(***************************************************************************)
clean_rating_of(rating_text_) ==
    Strip(Replace(Replace(rating_text_, SPACED_UPGRADE), SPACED_DOWNGRADE))

\* extract_base_rating with 'NR' listed among the default indicators
extract_base_rating_nr(rating_text_) ==
    IF rating_text_ = <<>> \/ rating_text_ \in {NA, DASH, <<>>, NR}
    THEN NA
    ELSE LET clean_rating == clean_rating_of(rating_text_) IN
         IF clean_rating \in {SD, RD, NR} THEN DEFAULT_D
         ELSE LET match == re_search_rating(clean_rating) IN
              IF match # None THEN match[1] ELSE clean_rating

extract_base_rating(rating_text_) ==
    IF rating_text_ = <<>> \/ rating_text_ \in {NA, DASH, <<>>, NR}
    THEN NA
    ELSE LET clean_rating == clean_rating_of(rating_text_) IN
         IF clean_rating \in {SD, RD} THEN DEFAULT_D
         ELSE LET match == re_search_rating(clean_rating) IN
              IF match # None THEN match[1] ELSE clean_rating

(***************************************************************************)
(* convert_rating_to_numeric                                               *)
(***************************************************************************)
\* upgrade_modifier_of moving a whole notch instead of a third
upgrade_modifier_notch(rating_text_) ==
    IF Contains(rating_text_, SPACED_UPGRADE) \/ Contains(rating_text_, UPGRADE)
    THEN 30
    ELSE IF Contains(rating_text_, SPACED_DOWNGRADE)
            \/ Contains(rating_text_, DOWNGRADE)
         THEN -30
         ELSE 0

\* upgrade_modifier_of testing only the literals with four leading spaces
upgrade_modifier_spaced(rating_text_) ==
    IF Contains(rating_text_, SPACED_UPGRADE) THEN 10
    ELSE IF Contains(rating_text_, SPACED_DOWNGRADE) THEN -10
         ELSE 0

upgrade_modifier_of(rating_text_) ==
    IF Contains(rating_text_, SPACED_UPGRADE) \/ Contains(rating_text_, UPGRADE)
    THEN 10
    ELSE IF Contains(rating_text_, SPACED_DOWNGRADE)
            \/ Contains(rating_text_, DOWNGRADE)
         THEN -10
         ELSE 0

\* rating_dict.get(base_rating, 0)
dict_get_zero(rating_dict, key) ==
    IF key \in DOMAIN rating_dict THEN <<rating_dict[key]>> ELSE <<0>>

\* rating_dict.get(base_rating, None)
dict_get(rating_dict, key) ==
    IF key \in DOMAIN rating_dict THEN Some(rating_dict[key]) ELSE None

\* convert_rating_to_numeric without the "base_numeric is None" return:
\* None + upgrade_modifier raises TypeError
convert_rating_unguarded(rating_text_, rating_dict) ==
    IF rating_text_ = <<>> THEN None
    ELSE LET upgrade_modifier == upgrade_modifier_of(rating_text_)
             base == extract_base_rating(rating_text_)
         IN  IF base = NA THEN None
             ELSE LET base_numeric == dict_get(rating_dict, base) IN
                  IF base_numeric = None THEN <<"raise", "TypeError">>
                  ELSE Some(30 * base_numeric[1] + upgrade_modifier)

\* convert_rating_to_numeric looking up the cleaned text, not the extracted code
convert_rating_unextracted(rating_text_, rating_dict) ==
    IF rating_text_ = <<>> THEN None
    ELSE LET upgrade_modifier == upgrade_modifier_of(rating_text_)
             base == clean_rating_of(rating_text_)
         IN  IF base = NA THEN None
             ELSE LET base_numeric == dict_get(rating_dict, base) IN
                  IF base_numeric = None THEN None
                  ELSE Some(30 * base_numeric[1] + upgrade_modifier)

convert_rating_to_numeric(rating_text_, rating_dict) ==
    IF rating_text_ = <<>> THEN None
    ELSE LET upgrade_modifier == upgrade_modifier_of(rating_text_)
             base == extract_base_rating(rating_text_)
         IN  IF base = NA THEN None
             ELSE LET base_numeric == dict_get(rating_dict, base) IN
                  IF base_numeric = None THEN None
                  ELSE Some(30 * base_numeric[1] + upgrade_modifier)

(***************************************************************************)
(* The rating cells the normalizer is run on.                              *)
(***************************************************************************)
GapChars == {" ", "\t"}

RECURSIVE Rep(_, _)
Rep(c, n) == IF n = 0 THEN <<>> ELSE <<c>> \o Rep(c, n - 1)

RECURSIVE StringsUpTo(_, _)
StringsUpTo(alphabet, n) ==
    IF n = 0 THEN {<<>>}
    ELSE LET shorter == StringsUpTo(alphabet, n - 1) IN
         shorter \cup {<<c>> \o s : c \in alphabet, s \in shorter}

TableKeys ==
    DOMAIN SP_RATINGS \cup DOMAIN MOODYS_RATINGS \cup DOMAIN FITCH_RATINGS

SpecialTexts == {SD, RD, NA, DASH, NR, <<>>}

FreeAlphabet == {"A", "D", "S", "R", "+", "-", "1", "4", "/", " "}

\* an outlook tag after 0..MaxGap whitespace characters, or no tag
TagParts ==
    {<<>>} \cup
    {Rep(w, n) \o tag : w \in GapChars, n \in 0..MaxGap,
                        tag \in {UPGRADE, DOWNGRADE}}

StructuredTexts ==
    {Rep(" ", l) \o body \o tagpart \o Rep(" ", t) :
        l \in 0..MaxPad, t \in 0..MaxPad,
        body \in TableKeys \cup SpecialTexts, tagpart \in TagParts}

FreeTexts ==
    {body \o tagpart :
        body \in StringsUpTo(FreeAlphabet, MaxLen),
        tagpart \in {<<>>, SPACED_UPGRADE, UPGRADE}}

RatingTexts == StructuredTexts \cup FreeTexts

(***************************************************************************)
(* State machine: one rating cell is converted with its agency's table,    *)
(* then the extracted base code is converted again.                        *)
(***************************************************************************)
\* the scraper's main and download_wgi_data have not started
MainIdle ==
    /\ driver = None
    /\ spread_df = None
    /\ ratings_df = None
    /\ merged_df = None
    /\ calls = <<>>

WgiIdle ==
    /\ requested = <<>>
    /\ all_data = <<>>
    /\ wgi_df = None

Init ==
    /\ rating_text \in RatingTexts
    /\ agency \in Agencies
    /\ base_rating = <<>>
    /\ numeric = None
    /\ renormalized = None
    /\ variant = "none"
    /\ df = <<>>
    /\ country_data = <<>>
    /\ used_positions = <<>>
    /\ rng = <<>>
    /\ scatter = <<>>
    /\ first_run = None
    /\ MainIdle
    /\ WgiIdle
    /\ pc = "cell"

\* df[agency_col].apply(lambda x: convert_rating_to_numeric(x, rating_dict))
Convert ==
    /\ pc = "cell"
    /\ numeric' = convert_rating_to_numeric(rating_text, rating_mappings(agency))
    /\ base_rating' = extract_base_rating(rating_text)
    /\ pc' = "converted"
    /\ UNCHANGED <<rating_text, agency, renormalized, lvars, mvars, wvars>>

\* convert_rating_to_numeric applied to an already extracted base code
Renormalize ==
    /\ pc = "converted"
    /\ renormalized' = convert_rating_to_numeric(base_rating, rating_mappings(agency))
    /\ pc' = "renormalized"
    /\ UNCHANGED <<rating_text, agency, base_rating, numeric, lvars, mvars, wvars>>

Next == Convert \/ Renormalize

Spec == Init /\ [][Next]_vars

(***************************************************************************)
(* Label placement of visualize_bond_data.py.  x is a spread in basis      *)
(* points; y, the gaps and the plot bounds are in thirtieths: 0.8 is 24,   *)
(* 0.6 is 18, 1.5 * 0.6 is 27, 13.8 is 414, 22.5 is 675, 14 is 420.        *)
(***************************************************************************)
label_dx == 8
full_window == 50
full_min_distance == 24
ig_window == 40
ig_min_distance == 18
ig_filter_min == 420
ig_plot_low == 414
ig_plot_high == 675
full_ylim_low == 0
full_ylim_high == 705

Abs(v) == IF v < 0 THEN -v ELSE v

MaxOf(S) == CHOOSE m \in S : \A v \in S : v <= m

agency_cols == 1..3

\* np.nanmin in place of np.nanmax: the worst present score
nanmin(ratings) ==
    LET present == {ratings[c][1] : c \in {c \in agency_cols : ratings[c] # None}}
    IN  IF present = {} THEN None
        ELSE Some(CHOOSE m \in present : \A v \in present : m <= v)

\* np.nanmax over the three numeric rating columns of a row: NaN is None
nanmax(ratings) ==
    LET present == {ratings[c][1] : c \in {c \in agency_cols : ratings[c] # None}}
    IN  IF present = {} THEN None ELSE Some(MaxOf(present))

\* df[df[agency_cols].max(axis=1) >= 14]
investment_grade_row(row) ==
    LET best == nanmax(row.ratings) IN best # None /\ best[1] >= ig_filter_min

\* collect_country_data testing "if x and not np.isnan(y)": a spread of 0 is
\* falsy and the row is dropped
RECURSIVE collect_country_data_truthy(_)
collect_country_data_truthy(rows) ==
    IF rows = <<>> THEN <<>>
    ELSE LET row == Head(rows)
             x == row.Spread_Numeric
             y == nanmax(row.ratings)
         IN  (IF x # None /\ x # Some(0) /\ y # None
              THEN << <<x[1], y[1], row.Country>> >>
              ELSE <<>>)
             \o collect_country_data_truthy(Tail(rows))

\* the loop over df.iterrows() that fills country_data
RECURSIVE collect_country_data(_)
collect_country_data(rows) ==
    IF rows = <<>> THEN <<>>
    ELSE LET row == Head(rows)
             x == row.Spread_Numeric
             y == nanmax(row.ratings)
         IN  (IF x # None /\ y # None
              THEN << <<x[1], y[1], row.Country>> >>
              ELSE <<>>)
             \o collect_country_data(Tail(rows))

\* a sort key that leaves out item[1]: both plots sort by item[0] alone
sort_key_x_only(item, by_y) == <<item[1], 0>>

\* list.sort(key=...): a stable sort; the key is item[0], or (item[0], item[1])
sort_key(item, by_y) == <<item[1], IF by_y THEN item[2] ELSE 0>>

\* key_less as "not greater": equal keys change places, the sort is not stable
key_less_or_equal(a, b) == a[1] < b[1] \/ (a[1] = b[1] /\ a[2] <= b[2])

key_less(a, b) == a[1] < b[1] \/ (a[1] = b[1] /\ a[2] < b[2])

RECURSIVE insert_sorted(_, _, _)
insert_sorted(sorted, item, by_y) ==
    IF sorted = <<>> THEN <<item>>
    ELSE IF key_less(sort_key(item, by_y), sort_key(Head(sorted), by_y))
         THEN <<item>> \o sorted
         ELSE <<Head(sorted)>> \o insert_sorted(Tail(sorted), item, by_y)

RECURSIVE stable_sort(_, _)
stable_sort(items, by_y) ==
    IF items = <<>> THEN <<>>
    ELSE insert_sorted(stable_sort(SubSeq(items, 1, Len(items) - 1), by_y),
                       items[Len(items)], by_y)

\* full_adjust without the test abs(lx - used_x) < 50: a label at any
\* horizontal distance displaces
RECURSIVE full_adjust_any_x(_, _, _, _)
full_adjust_any_x(lx, ly, used, i) ==
    IF i > Len(used) THEN ly
    ELSE LET used_y == used[i][2]
             moved == IF Abs(ly - used_y) < full_min_distance
                      THEN IF ly >= used_y
                           THEN used_y + full_min_distance
                           ELSE used_y - full_min_distance
                      ELSE ly
         IN  full_adjust_any_x(lx, moved, used, i + 1)

\* create_full_plot: the inner loop over used_positions from entry i on,
\* ly being rewritten as the loop goes
RECURSIVE full_adjust(_, _, _, _)
full_adjust(lx, ly, used, i) ==
    IF i > Len(used) THEN ly
    ELSE LET used_x == used[i][1]
             used_y == used[i][2]
             moved == IF Abs(lx - used_x) < full_window
                         /\ Abs(ly - used_y) < full_min_distance
                      THEN IF ly >= used_y
                           THEN used_y + full_min_distance
                           ELSE used_y - full_min_distance
                      ELSE ly
         IN  full_adjust(lx, moved, used, i + 1)

\* full_resolve placing the label at the marker, without label_dx
full_resolve_no_offset(x, y, used) == <<x, full_adjust(x, y, used, 1)>>

full_resolve(x, y, used) == <<x + label_dx, full_adjust(x + label_dx, y, used, 1)>>

\* create_investment_grade_plot: sum(1 for ux, uy in used_positions if ...)
ig_overlap(lx, candidate, used) ==
    Cardinality({i \in 1..Len(used) :
                    /\ Abs(lx - used[i][1]) < ig_window
                    /\ Abs(candidate - used[i][2]) < ig_min_distance})

\* ig_best comparing with "overlap <= min_overlap": of equally good
\* candidates the last listed wins
RECURSIVE ig_best_last(_, _, _, _)
ig_best_last(candidates, best, lx, used) ==
    IF candidates = <<>> THEN best[1]
    ELSE LET candidate == Head(candidates)
             overlap == ig_overlap(lx, candidate, used)
             better == /\ ig_plot_low <= candidate
                       /\ candidate <= ig_plot_high
                       /\ (best[2] = None \/ overlap <= best[2][1])
         IN  ig_best_last(Tail(candidates),
                          IF better THEN <<candidate, Some(overlap)>> ELSE best,
                          lx, used)

\* the loop over candidates: best is <<best_ly, min_overlap>>, with
\* float('inf') written as None
RECURSIVE ig_best(_, _, _, _)
ig_best(candidates, best, lx, used) ==
    IF candidates = <<>> THEN best[1]
    ELSE LET candidate == Head(candidates)
             overlap == ig_overlap(lx, candidate, used)
             better == /\ ig_plot_low <= candidate
                       /\ candidate <= ig_plot_high
                       /\ (best[2] = None \/ overlap < best[2][1])
         IN  ig_best(Tail(candidates),
                     IF better THEN <<candidate, Some(overlap)>> ELSE best,
                     lx, used)

ig_candidates(used_y) ==
    <<used_y + ig_min_distance,
      used_y - ig_min_distance,
      used_y + (3 * ig_min_distance) \div 2,
      used_y - (3 * ig_min_distance) \div 2>>

\* ig_adjust with min_overlap = 0 in place of float('inf')
RECURSIVE ig_adjust_zero(_, _, _, _)
ig_adjust_zero(lx, ly, used, i) ==
    IF i > Len(used) THEN ly
    ELSE IF Abs(lx - used[i][1]) < ig_window
            /\ Abs(ly - used[i][2]) < ig_min_distance
         THEN ig_best(ig_candidates(used[i][2]), <<ly, Some(0)>>, lx, used)
         ELSE ig_adjust_zero(lx, ly, used, i + 1)

\* the loop over used_positions from entry i on, left at the first collision
RECURSIVE ig_adjust(_, _, _, _)
ig_adjust(lx, ly, used, i) ==
    IF i > Len(used) THEN ly
    ELSE IF Abs(lx - used[i][1]) < ig_window
            /\ Abs(ly - used[i][2]) < ig_min_distance
         THEN ig_best(ig_candidates(used[i][2]), <<ly, None>>, lx, used)
         ELSE ig_adjust(lx, ly, used, i + 1)

ig_resolve(x, y, used) == <<x + label_dx, ig_adjust(x + label_dx, y, used, 1)>>

(***************************************************************************)
(* The rows the plots are run on.                                          *)
(***************************************************************************)
SpreadValues == {0, 30, 75}

RatingTriples ==
    {<<Some(390), Some(380), None>>,
     <<Some(420), None, None>>,
     <<Some(430), Some(430), Some(400)>>,
     <<Some(670), Some(660), None>>}

\* every spread with every triple; a country in the middle of the
\* investment-grade range, one without a spread and one without a rating
RowValues ==
    {<<Some(x), r>> : x \in SpreadValues, r \in RatingTriples}
    \cup {<<Some(0), <<Some(540), Some(550), Some(530)>> >>,
          <<None, <<Some(420), None, None>> >>,
          <<Some(0), <<None, None, None>> >>}

Frames ==
    UNION {[1..n -> RowValues] : n \in 0..MaxRows}

frame_rows(f) ==
    [i \in DOMAIN f |->
        [Country |-> i, Spread_Numeric |-> f[i][1], ratings |-> f[i][2]]]

(***************************************************************************)
(* The scatter markers of a plot function.  rng.normal(0, jitter_x, n)     *)
(* yields the next n offsets of the generator; the source fixes the seed,  *)
(* not the values, so a generator is any one of rng_streams, a cycle of    *)
(* offsets in basis points.                                                *)
(***************************************************************************)
rng_streams == {<<3, -4>>, <<-6, 2, 5>>}

\* the stream of np.random.default_rng(42)
seeded_offsets == <<3, -4>>

\* the k-th offset a generator yields
draw(stream, k) == stream[((k - 1) % Len(stream)) + 1]

\* df.dropna(subset=[col, "Spread_Numeric"])
dropna_rows(rows, col) ==
    SelectSeq(rows, LAMBDA row :
                        row.ratings[col] # None /\ row.Spread_Numeric # None)

\* the markers of one agency, the generator having yielded drawn offsets
column_markers(rows, col, stream, drawn) ==
    LET sub == dropna_rows(rows, col)
    IN  [k \in 1..Len(sub) |->
            <<sub[k].Spread_Numeric[1] + draw(stream, drawn + k),
              sub[k].ratings[col][1]>>]

\* the loop over the three agencies that draws the markers
scatter_markers(rows, stream) ==
    LET n1 == Len(dropna_rows(rows, 1))
        n2 == Len(dropna_rows(rows, 2))
    IN  column_markers(rows, 1, stream, 0)
            \o column_markers(rows, 2, stream, n1)
            \o column_markers(rows, 3, stream, n1 + n2)

(***************************************************************************)
(* Average_Rating and Ratings_Count of scrape_credit_ratings, and          *)
(* categorize_by_average_rating of generate_ratings_table.py.  An average  *)
(* is an integer number of hundredths, NaN is None.                        *)
(***************************************************************************)
numeric_cols == 1..3

\* df[numeric_cols].count(axis=1) for one row
count_row(ratings) == Cardinality({c \in numeric_cols : ratings[c] # None})

\* the sum of the present scores of a row, in thirtieths
sum_row(ratings) ==
    LET v(c) == IF ratings[c] = None THEN 0 ELSE ratings[c][1]
    IN  v(1) + v(2) + v(3)

\* round(2) of the fraction num / den (num >= 0, den > 0) of a score,
\* as hundredths: to the nearest, a tie to the even neighbour
round2(num, den) ==
    LET q == (100 * num) \div den
        r == (100 * num) % den
    IN  IF 2 * r < den THEN q
        ELSE IF 2 * r > den THEN q + 1
        ELSE IF q % 2 = 0 THEN q ELSE q + 1

\* the mean over fillna(0): an absent score counts as 0
mean_row_zero_filled(ratings) == Some(round2(sum_row(ratings), 30 * 3))

\* df[numeric_cols].mean(axis=1, skipna=True).round(2) for one row
mean_row(ratings) ==
    IF count_row(ratings) = 0 THEN None
    ELSE Some(round2(sum_row(ratings), 30 * count_row(ratings)))

\* the keys of RATING_GRADES in the order the dict lists them
grade_order ==
    <<"Prime", "High Medium Grade", "Upper Medium Grade", "Lower Medium Grade",
      "Speculative", "Highly Speculative", "Substantial Risk",
      "Extremely Speculative", "In Default">>

\* the loop over RATING_GRADES.items() from grade number g on
RECURSIVE first_grade(_, _)
first_grade(avg_rating, g) ==
    IF g > Len(grade_order) THEN "No Rating"
    ELSE LET range == RATING_GRADES[grade_order[g]]["range"]
         IN  IF 100 * range[1] <= avg_rating /\ avg_rating <= 100 * range[2]
             THEN grade_order[g]
             ELSE first_grade(avg_rating, g + 1)

categorize_by_average_rating(avg_rating) ==
    IF avg_rating = None THEN "No Rating" ELSE first_grade(avg_rating[1], 1)

(***************************************************************************)
(* State machine of the pipeline on one frame: the averages are added, the *)
(* rows are categorized, then one plot function collects and sorts         *)
(* country_data and places one label per step of its loop.                 *)
(***************************************************************************)
InitLabels ==
    /\ rating_text = <<>>
    /\ agency = "S&P"
    /\ base_rating = <<>>
    /\ numeric = None
    /\ renormalized = None
    /\ variant \in {"full", "investment_grade"}
    /\ df \in {frame_rows(f) : f \in Frames}
    /\ country_data = <<>>
    /\ used_positions = <<>>
    /\ rng = seeded_offsets
    /\ scatter = <<>>
    /\ first_run = None
    /\ MainIdle
    /\ WgiIdle
    /\ pc = "ratings"

\* scrape_credit_ratings: df['Average_Rating'] and df['Ratings_Count']
AddAverages ==
    /\ pc = "ratings"
    /\ df' = [i \in DOMAIN df |->
                 [Country |-> df[i].Country,
                  Spread_Numeric |-> df[i].Spread_Numeric,
                  ratings |-> df[i].ratings,
                  Average_Rating |-> mean_row(df[i].ratings),
                  Ratings_Count |-> count_row(df[i].ratings)]]
    /\ pc' = "averaged"
    /\ UNCHANGED <<nvars, mvars, wvars, variant, country_data, used_positions, rng, scatter, first_run>>

\* generate_ratings_summary_table: df['Grade_Category']
Categorize ==
    /\ pc = "averaged"
    /\ df' = [i \in DOMAIN df |->
                 [Country |-> df[i].Country,
                  Spread_Numeric |-> df[i].Spread_Numeric,
                  ratings |-> df[i].ratings,
                  Average_Rating |-> df[i].Average_Rating,
                  Ratings_Count |-> df[i].Ratings_Count,
                  Grade_Category |->
                      categorize_by_average_rating(df[i].Average_Rating)]]
    /\ pc' = "rows"
    /\ UNCHANGED <<nvars, mvars, wvars, variant, country_data, used_positions, rng, scatter, first_run>>

\* the collected items with the x of the markers: each spread moved by an
\* offset of the generator
jittered_items(items, stream) ==
    [k \in 1..Len(items) |->
        <<items[k][1] + draw(stream, k), items[k][2], items[k][3]>>]

\* FullCollect taking the label x from the jittered marker x
FullCollect_jittered ==
    /\ pc = "rows"
    /\ variant = "full"
    /\ scatter' = scatter_markers(df, rng)
    /\ country_data' =
           stable_sort(jittered_items(collect_country_data(df), rng), FALSE)
    /\ pc' = IF country_data' = <<>> THEN "done" ELSE "placing"
    /\ UNCHANGED <<nvars, mvars, wvars, variant, df, used_positions, rng, first_run>>

\* create_full_plot, up to country_data.sort
FullCollect ==
    /\ pc = "rows"
    /\ variant = "full"
    /\ scatter' = scatter_markers(df, rng)
    /\ country_data' = stable_sort(collect_country_data(df), FALSE)
    /\ pc' = IF country_data' = <<>> THEN "done" ELSE "placing"
    /\ UNCHANGED <<nvars, mvars, wvars, variant, df, used_positions, rng, first_run>>

\* FullPlace with used_positions.insert(0, (lx, ly)): the new position goes
\* to the front of the list
FullPlace_insert_front ==
    /\ pc = "placing"
    /\ variant = "full"
    /\ LET item == country_data[Len(used_positions) + 1] IN
       used_positions' =
           <<full_resolve(item[1], item[2], used_positions)>> \o used_positions
    /\ pc' = IF Len(used_positions') = Len(country_data) THEN "done" ELSE "placing"
    /\ UNCHANGED <<nvars, mvars, wvars, variant, df, country_data, rng, scatter, first_run>>

\* create_full_plot, one pass of "for x, y, ctry, code in country_data"
FullPlace ==
    /\ pc = "placing"
    /\ variant = "full"
    /\ LET item == country_data[Len(used_positions) + 1] IN
       used_positions' =
           Append(used_positions, full_resolve(item[1], item[2], used_positions))
    /\ pc' = IF Len(used_positions') = Len(country_data) THEN "done" ELSE "placing"
    /\ UNCHANGED <<nvars, mvars, wvars, variant, df, country_data, rng, scatter, first_run>>

\* create_investment_grade_plot, up to country_data.sort
IGCollect ==
    /\ pc = "rows"
    /\ variant = "investment_grade"
    /\ scatter' = scatter_markers(SelectSeq(df, investment_grade_row), rng)
    /\ country_data' =
           stable_sort(collect_country_data(SelectSeq(df, investment_grade_row)),
                       TRUE)
    /\ pc' = IF country_data' = <<>> THEN "done" ELSE "placing"
    /\ UNCHANGED <<nvars, mvars, wvars, variant, df, used_positions, rng, first_run>>

\* create_investment_grade_plot, one pass of the loop over country_data
IGPlace ==
    /\ pc = "placing"
    /\ variant = "investment_grade"
    /\ LET item == country_data[Len(used_positions) + 1] IN
       used_positions' =
           Append(used_positions, ig_resolve(item[1], item[2], used_positions))
    /\ pc' = IF Len(used_positions') = Len(country_data) THEN "done" ELSE "placing"
    /\ UNCHANGED <<nvars, mvars, wvars, variant, df, country_data, rng, scatter, first_run>>

NextLabels == AddAverages \/ Categorize \/ FullCollect \/ FullPlace \/ IGCollect \/ IGPlace

SpecLabels == InitLabels /\ [][NextLabels]_vars

(***************************************************************************)
(* The pipeline on a crowded chart: more countries, all within one         *)
(* horizontal window of each other.                                        *)
(***************************************************************************)
CrowdedRowValues ==
    {<<Some(x), r>> : x \in {0, 30},
                      r \in {<<Some(420), None, None>>,
                             <<Some(540), Some(550), Some(530)>>,
                             <<Some(670), Some(660), None>>}}

CrowdedFrames == UNION {[1..n -> CrowdedRowValues] : n \in 0..MaxCrowdedRows}

InitCrowded ==
    /\ rating_text = <<>>
    /\ agency = "S&P"
    /\ base_rating = <<>>
    /\ numeric = None
    /\ renormalized = None
    /\ variant \in {"full", "investment_grade"}
    /\ df \in {frame_rows(f) : f \in CrowdedFrames}
    /\ country_data = <<>>
    /\ used_positions = <<>>
    /\ rng = seeded_offsets
    /\ scatter = <<>>
    /\ first_run = None
    /\ MainIdle
    /\ WgiIdle
    /\ pc = "ratings"

SpecCrowded == InitCrowded /\ [][NextLabels]_vars

(***************************************************************************)
(* The plot function run twice on the same frame, the generator yielding   *)
(* any stream in each run.                                                 *)
(***************************************************************************)
RunFrames == UNION {[1..n -> RowValues] : n \in 0..MaxRunRows}

InitRuns ==
    /\ rating_text = <<>>
    /\ agency = "S&P"
    /\ base_rating = <<>>
    /\ numeric = None
    /\ renormalized = None
    /\ variant \in {"full", "investment_grade"}
    /\ df \in {frame_rows(f) : f \in RunFrames}
    /\ country_data = <<>>
    /\ used_positions = <<>>
    /\ rng \in rng_streams
    /\ scatter = <<>>
    /\ first_run = None
    /\ MainIdle
    /\ WgiIdle
    /\ pc = "ratings"

\* the plot function is called again on the same df
Rerun ==
    /\ pc = "done"
    /\ first_run = None
    /\ first_run' = Some([scatter |-> scatter, used_positions |-> used_positions])
    /\ rng' \in rng_streams
    /\ scatter' = <<>>
    /\ country_data' = <<>>
    /\ used_positions' = <<>>
    /\ pc' = "rows"
    /\ UNCHANGED <<nvars, mvars, wvars, variant, df>>

NextRuns == NextLabels \/ Rerun

SpecRuns == InitRuns /\ [][NextRuns]_vars

(***************************************************************************)
(* create_investment_grade_plot run twice, the second time on the rows of  *)
(* the same frame in another order.                                        *)
(***************************************************************************)
reordered(rows) ==
    {[k \in 1..Len(rows) |-> rows[p[k]]] :
        p \in {q \in [1..Len(rows) -> 1..Len(rows)] :
                  \A a, b \in 1..Len(rows) : a # b => q[a] # q[b]}}

InitReordered ==
    /\ rating_text = <<>>
    /\ agency = "S&P"
    /\ base_rating = <<>>
    /\ numeric = None
    /\ renormalized = None
    /\ variant = "investment_grade"
    /\ df \in {frame_rows(f) : f \in RunFrames}
    /\ country_data = <<>>
    /\ used_positions = <<>>
    /\ rng = seeded_offsets
    /\ scatter = <<>>
    /\ first_run = None
    /\ MainIdle
    /\ WgiIdle
    /\ pc = "ratings"

\* the plot function is called again, the caller passing the rows in any order
RerunReordered ==
    /\ pc = "done"
    /\ first_run = None
    /\ first_run' = Some([scatter |-> scatter, used_positions |-> used_positions,
                          df |-> df])
    /\ df' \in reordered(df)
    /\ rng' = seeded_offsets
    /\ scatter' = <<>>
    /\ country_data' = <<>>
    /\ used_positions' = <<>>
    /\ pc' = "rows"
    /\ UNCHANGED <<nvars, mvars, wvars, variant>>

NextReordered == AddAverages \/ Categorize \/ IGCollect \/ IGPlace \/ RerunReordered

SpecReordered == InitReordered /\ [][NextReordered]_vars

(***************************************************************************)
(* clean_country_name and merge_datasets of scrape_bond_data.py.  A frame  *)
(* is a sequence of rows; the ratings frame also records the header of its *)
(* first column, under which the page lists the countries.                 *)
(***************************************************************************)
UpperCase ==
    <<"A","B","C","D","E","F","G","H","I","J","K","L","M",
      "N","O","P","Q","R","S","T","U","V","W","X","Y","Z">>

LowerCase ==
    <<"a","b","c","d","e","f","g","h","i","j","k","l","m",
      "n","o","p","q","r","s","t","u","v","w","x","y","z">>

\* Python: s.lower()
Lower(s) ==
    [i \in DOMAIN s |->
        IF \E k \in 1..26 : UpperCase[k] = s[i]
        THEN LowerCase[CHOOSE k \in 1..26 : UpperCase[k] = s[i]]
        ELSE s[i]]

\* the first position from i on that holds no whitespace, Len(s) + 1 if none
skip_whitespace(s, i) ==
    CHOOSE j \in i..(Len(s) + 1) :
        /\ \A k \in i..(j - 1) : s[k] \in Whitespace
        /\ j = Len(s) + 1 \/ s[j] \notin Whitespace

\* r'\s*\([^)]*\)\s*' matches s from position i on
parenthetical_at(s, i) ==
    LET open == skip_whitespace(s, i)
    IN  /\ open <= Len(s)
        /\ s[open] = "("
        /\ \E close \in (open + 1)..Len(s) : s[close] = ")"

\* the last position of that match
parenthetical_end(s, i) ==
    LET open == skip_whitespace(s, i)
        close == CHOOSE c \in (open + 1)..Len(s) :
                     s[c] = ")" /\ \A k \in (open + 1)..(c - 1) : s[k] # ")"
    IN  skip_whitespace(s, close + 1) - 1

\* re.sub(r'\s*\([^)]*\)\s*', '', name)
RECURSIVE remove_parentheticals(_)
remove_parentheticals(s) ==
    IF \E i \in 1..Len(s) : parenthetical_at(s, i)
    THEN LET i == CHOOSE i \in 1..Len(s) :
                     /\ parenthetical_at(s, i)
                     /\ \A k \in 1..(i - 1) : ~parenthetical_at(s, k)
         IN  SubSeq(s, 1, i - 1)
                 \o remove_parentheticals(
                        SubSeq(s, parenthetical_end(s, i) + 1, Len(s)))
    ELSE s

clean_country_name(name) == Strip(remove_parentheticals(name))

UK == <<"U","K">>
UKRAINE == <<"U","k","r","a","i","n","e">>
JAPAN == <<"J","a","p","a","n">>
STARRED == <<" ","(","*",")">>

COUNTRY_NAME_MAPPING == (UK :> UKRAINE)

\* the country column of ratings_df: the first header with 'country' in it
country_column_of(ratings) ==
    IF Contains(Lower(ratings.header), <<"c","o","u","n","t","r","y">>)
    THEN Some(ratings.header)
    ELSE None

\* pd.merge(..., on 'Country_Clean', how='inner'): the pairs of a spread row
\* and a ratings row with the same cleaned name, in the order of the left
\* rows; the column 'Country' survives unless both frames have one
RECURSIVE inner_merge(_, _, _)
inner_merge(spreads, ratings, keep_country) ==
    IF spreads = <<>> THEN <<>>
    ELSE LET left == Head(spreads)
             same(right) == clean_country_name(right.Country)
                                = clean_country_name(left.Country)
             joined(right) ==
                 [Country |-> IF keep_country THEN Some(left.Country) ELSE None,
                  Spread |-> left.Spread,
                  Average_Rating |-> right.Average_Rating]
             matches == SelectSeq(ratings, same)
         IN  [k \in 1..Len(matches) |-> joined(matches[k])]
                 \o inner_merge(Tail(spreads), ratings, keep_country)

\* a comes no later than b under sort_values(by='Average_Rating',
\* ascending=False): greater averages first, NaN last
average_not_after(a, b) ==
    \/ b.Average_Rating = None
    \/ a.Average_Rating # None /\ a.Average_Rating[1] >= b.Average_Rating[1]

\* the orders sort_values may leave the rows of idx in: the sort is not
\* stable, rows with equal averages come in any order (of equal rows the
\* first is taken, the others give the same frames)
RECURSIVE sorted_orders(_, _)
sorted_orders(rows, idx) ==
    IF idx = {} THEN {<<>>}
    ELSE UNION {{<<rows[i]>> \o rest : rest \in sorted_orders(rows, idx \ {i})} :
                   i \in {a \in idx :
                             /\ \A b \in idx : average_not_after(rows[a], rows[b])
                             /\ \A b \in idx : b < a => rows[b] # rows[a]}}

sorted_by_average(rows) == sorted_orders(rows, 1..Len(rows))

\* the frames merge_datasets may return; None when no country column is found
merge_datasets(spreads, ratings) ==
    IF country_column_of(ratings) = None THEN {None}
    ELSE {Some(m) :
             m \in sorted_by_average(
                      inner_merge(spreads, ratings.rows,
                                  ratings.header # <<"C","o","u","n","t","r","y">>))}

(***************************************************************************)
(* main of scrape_bond_data.py.  The two pages deliver any of a few        *)
(* tables, or the scrape fails and returns None.                           *)
(***************************************************************************)
SpreadRows ==
    {[Country |-> c, Spread |-> 250] : c \in {UK, UKRAINE \o STARRED, JAPAN}}

SpreadTables == UNION {[1..n -> SpreadRows] : n \in 0..MaxTableRows}

RatingsRows ==
    {[Country |-> UKRAINE, Average_Rating |-> Some(1283)],
     [Country |-> UKRAINE \o STARRED, Average_Rating |-> None],
     [Country |-> JAPAN, Average_Rating |-> Some(1283)],
     [Country |-> JAPAN, Average_Rating |-> None]}

RatingsHeaders ==
    {<<"C","o","u","n","t","r","y">>, <<"C","O","U","N","T","R","Y"," ","*">>,
     <<"N","a","m","e">>}

RatingsTables ==
    {[header |-> h, rows |-> r] :
        h \in RatingsHeaders,
        r \in UNION {[1..n -> RatingsRows] : n \in 1..MaxTableRows}}

InitMain ==
    /\ rating_text = <<>>
    /\ agency = "S&P"
    /\ base_rating = <<>>
    /\ numeric = None
    /\ renormalized = None
    /\ variant = "none"
    /\ df = <<>>
    /\ country_data = <<>>
    /\ used_positions = <<>>
    /\ rng = <<>>
    /\ scatter = <<>>
    /\ first_run = None
    /\ MainIdle
    /\ WgiIdle
    /\ pc = "main"

\* driver = setup_driver(headless=True): the driver, or the exception that
\* setup_driver raises again
SetupDriver ==
    /\ pc = "main"
    /\ calls' = Append(calls, "setup_driver")
    /\ \/ driver' = Some("running") /\ pc' = "spreads"
       \/ driver' = driver /\ pc' = "finally"
    /\ UNCHANGED <<nvars, lvars, wvars, spread_df, ratings_df, merged_df>>

\* spread_df = scrape_bond_spreads(driver) and the test that follows
ScrapeSpreads ==
    /\ pc = "spreads"
    /\ calls' = Append(calls, "scrape_bond_spreads")
    /\ spread_df' \in {None} \cup {Some(t) : t \in SpreadTables}
    /\ pc' = IF spread_df' = None THEN "finally" ELSE "ratings"
    /\ UNCHANGED <<nvars, lvars, wvars, driver, ratings_df, merged_df>>

\* ratings_df = scrape_credit_ratings(driver) and the test that follows
ScrapeRatings ==
    /\ pc = "ratings"
    /\ calls' = Append(calls, "scrape_credit_ratings")
    /\ ratings_df' \in {None} \cup {Some(t) : t \in RatingsTables}
    /\ pc' = IF ratings_df' = None THEN "finally" ELSE "merge"
    /\ UNCHANGED <<nvars, lvars, wvars, driver, spread_df, merged_df>>

\* merged_df = merge_datasets(spread_df, ratings_df)
Merge ==
    /\ pc = "merge"
    /\ calls' = Append(calls, "merge_datasets")
    /\ merged_df' \in merge_datasets(spread_df[1], ratings_df[1])
    /\ pc' = "finally"
    /\ UNCHANGED <<nvars, lvars, wvars, driver, spread_df, ratings_df>>

\* an exception leaves the try block in the middle of a step
RaiseUnexpected ==
    /\ pc \in {"spreads", "ratings", "merge"}
    /\ calls' = Append(calls, "exception")
    /\ pc' = "finally"
    /\ UNCHANGED <<nvars, lvars, wvars, driver, spread_df, ratings_df, merged_df>>

\* a finally block that quits the driver only after a merge
Finally_on_success ==
    /\ pc = "finally"
    /\ IF driver # None /\ merged_df # None
       THEN driver' = Some("quit") /\ calls' = Append(calls, "quit")
       ELSE UNCHANGED <<driver, calls>>
    /\ pc' = "returned"
    /\ UNCHANGED <<nvars, lvars, wvars, spread_df, ratings_df, merged_df>>

\* finally: if driver: driver.quit()
Finally ==
    /\ pc = "finally"
    /\ IF driver # None
       THEN driver' = Some("quit") /\ calls' = Append(calls, "quit")
       ELSE UNCHANGED <<driver, calls>>
    /\ pc' = "returned"
    /\ UNCHANGED <<nvars, lvars, wvars, spread_df, ratings_df, merged_df>>

NextMain ==
    SetupDriver \/ ScrapeSpreads \/ ScrapeRatings \/ Merge \/ RaiseUnexpected
        \/ Finally

SpecMain == InitMain /\ [][NextMain]_vars

(***************************************************************************)
(* download_wgi_data of wgi_correlation_complete.py and the first use main *)
(* makes of its table.  A table is its columns, its index of (Country,     *)
(* Year) and its cells; the values of the sample data are not modelled,    *)
(* every cell of the sample table holds one.                               *)
(***************************************************************************)
indicators == <<"VA.EST", "PV.EST", "GE.EST", "RQ.EST", "RL.EST", "CC.EST">>

column_mapping ==
    [code \in {"VA.EST", "PV.EST", "GE.EST", "RQ.EST", "RL.EST", "CC.EST"} |->
        CASE code = "VA.EST" -> "VA"
          [] code = "PV.EST" -> "PSV"
          [] code = "GE.EST" -> "GE"
          [] code = "RQ.EST" -> "RQ"
          [] code = "RL.EST" -> "RL"
          [] code = "CC.EST" -> "CC"]

indicator_cols == <<"VA", "PSV", "GE", "RQ", "RL", "CC">>

\* the order pivot_table leaves the indicator columns in
pivot_order == <<"CC.EST", "GE.EST", "PV.EST", "RL.EST", "RQ.EST", "VA.EST">>

WgiRecords ==
    {[country |-> c, date |-> 2020, value |-> v] :
        c \in {"Australia", "Brazil"}, v \in {None, Some(5)}}

\* what one request may end in: an exception, an HTTP error, a reply whose
\* second element is no list, or a list of records
WgiResponses ==
    {[outcome |-> "raised", data |-> None],
     [outcome |-> "status_500", data |-> None],
     [outcome |-> "status_200", data |-> None]}
        \cup {[outcome |-> "status_200", data |-> Some(records)] :
                 records \in UNION {[1..n -> WgiRecords] : n \in 0..MaxRecords}}

\* the entries one reply adds to all_data
RECURSIVE appended(_, _)
appended(code, records) ==
    IF records = <<>> THEN <<>>
    ELSE (IF Head(records).value # None
          THEN <<[Country |-> Head(records).country,
                  Year |-> Head(records).date,
                  Indicator |-> code,
                  Value |-> Head(records).value[1]]>>
          ELSE <<>>) \o appended(code, Tail(records))

entries_of(data, key, code) ==
    SelectSeq(data, LAMBDA e : <<e.Country, e.Year>> = key /\ e.Indicator = code)

\* pd.DataFrame(all_data).pivot_table(...).reset_index() with the columns
\* renamed: one column for each indicator that has an entry
pivot_table(data) ==
    LET present == SelectSeq(pivot_order,
                             LAMBDA code : \E k \in 1..Len(data) :
                                               data[k].Indicator = code)
        index == {<<data[k].Country, data[k].Year>> : k \in 1..Len(data)}
    IN  [sample |-> FALSE,
         columns |-> <<"Country", "Country_Code", "Year">>
                         \o [k \in 1..Len(present) |-> column_mapping[present[k]]],
         index |-> index,
         cells |-> [key \in index |->
                       [k \in 1..Len(present) |->
                           IF entries_of(data, key, present[k]) = <<>> THEN None
                           ELSE Some(entries_of(data, key, present[k])[1].Value)]]]

create_sample_data ==
    LET index == {<<c, 2020>> : c \in {"Australia", "Brazil"}}
    IN  [sample |-> TRUE,
         columns |-> <<"Country", "Country_Code", "Year">> \o indicator_cols,
         index |-> index,
         cells |-> [key \in index |-> [k \in 1..Len(indicator_cols) |-> Some(0)]]]

has_column(frame, name) ==
    \E k \in 1..Len(frame.columns) : frame.columns[k] = name

InitWgi ==
    /\ rating_text = <<>>
    /\ agency = "S&P"
    /\ base_rating = <<>>
    /\ numeric = None
    /\ renormalized = None
    /\ variant = "none"
    /\ df = <<>>
    /\ country_data = <<>>
    /\ used_positions = <<>>
    /\ rng = <<>>
    /\ scatter = <<>>
    /\ first_run = None
    /\ MainIdle
    /\ WgiIdle
    /\ pc = "downloading"

\* one turn of the loop over indicators.items()
Request ==
    /\ pc = "downloading"
    /\ Len(requested) < Len(indicators)
    /\ LET code == indicators[Len(requested) + 1]
       IN  /\ requested' = Append(requested, code)
           /\ \E response \in WgiResponses :
                  all_data' =
                      IF response.outcome = "status_200" /\ response.data # None
                      THEN all_data \o appended(code, response.data[1])
                      ELSE all_data
    /\ UNCHANGED <<nvars, lvars, mvars, wgi_df, pc>>

\* the rest of download_wgi_data: the sample data or the pivoted table
ReturnTable ==
    /\ pc = "downloading"
    /\ Len(requested) = Len(indicators)
    /\ wgi_df' = IF all_data = <<>> THEN Some(create_sample_data)
                 ELSE Some(pivot_table(all_data))
    /\ pc' = "downloaded"
    /\ UNCHANGED <<nvars, lvars, mvars, requested, all_data>>

\* main: calculate_correlation_matrix(df, method='pooled') selects
\* df[['Year', 'Country'] + indicator_cols], a KeyError if a column is missing
CalculateCorrelation ==
    /\ pc = "downloaded"
    /\ pc' = IF \A k \in 1..Len(indicator_cols) :
                    has_column(wgi_df[1], indicator_cols[k])
             THEN "correlated"
             ELSE "KeyError"
    /\ UNCHANGED <<nvars, lvars, mvars, wvars>>

NextWgi == Request \/ ReturnTable \/ CalculateCorrelation

SpecWgi == InitWgi /\ [][NextWgi]_vars

(***************************************************************************)
(* Properties of the rating normalizer.                                    *)
(***************************************************************************)
\* the cell has been converted: numeric and base_rating hold the results
Converted == pc # "cell"

Range(f) == {f[k] : k \in DOMAIN f}

HasTag(t) == Contains(t, UPGRADE) \/ Contains(t, DOWNGRADE)

\* t is the code c, then zero or more whitespace characters, then the tag
CodeGapTag(t, c, tag) ==
    /\ Len(t) >= Len(c) + Len(tag)
    /\ MatchesAt(t, c, 1)
    /\ MatchesAt(t, tag, Len(t) - Len(tag) + 1)
    /\ \A i \in (Len(c) + 1)..(Len(t) - Len(tag)) : t[i] \in Whitespace

\* C1: convert_rating_to_numeric returns the documented reference values:
\* "AAA" under S&P gives 22, "BBB+    [upgrade]" under S&P gives 15 + 1/3,
\* "SD" under S&P gives 1, "N/A" under S&P gives absent and the empty string
\* gives absent under each of the three tables.
C1_ReferenceValues ==
    Converted =>
        /\ (agency = "S&P" /\ rating_text = <<"A","A","A">>)
              => numeric = Some(660)
        /\ (agency = "S&P" /\ rating_text = <<"B","B","B","+">> \o SPACED_UPGRADE)
              => numeric = Some(460)
        /\ (agency = "S&P" /\ rating_text = SD) => numeric = Some(30)
        /\ (agency = "S&P" /\ rating_text = NA) => numeric = None
        /\ rating_text = <<>> => numeric = None

C1_Witness ==
    /\ Converted
    /\ agency = "S&P"
    /\ rating_text = <<"B","B","B","+">> \o SPACED_UPGRADE
    /\ numeric = Some(460)

\* C2: for every key c of the table in use and every number n >= 0 of
\* whitespace characters between c and the outlook tag, c + n spaces +
\* "[upgrade]" gives table[c] + 1/3, c + n spaces + "[downgrade]" gives
\* table[c] - 1/3, and c alone gives table[c].
C2_OutlookModifier ==
    Converted =>
        LET table == rating_mappings(agency) IN
        \A c \in DOMAIN table :
            /\ rating_text = c => numeric = Some(30 * table[c])
            /\ CodeGapTag(rating_text, c, UPGRADE)
                  => numeric = Some(30 * table[c] + 10)
            /\ CodeGapTag(rating_text, c, DOWNGRADE)
                  => numeric = Some(30 * table[c] - 10)

C2_Witness ==
    /\ Converted
    /\ agency = "Moody's"
    /\ rating_text = <<"A","a","3">> \o UPGRADE
    /\ numeric = Some(580)

\* C3: under the S&P and Fitch tables a rating text whose base rating is "SD"
\* or "RD" is mapped to the base code "D" and normalizes to 1 plus the outlook
\* modifier, with no tag and with an upgrade/downgrade tag after any number
\* (zero or more) of whitespace characters.
C3_DefaultIndicators ==
    (Converted /\ agency \in {"S&P", "Fitch"}) =>
        \A d \in {SD, RD} :
            /\ rating_text = d => (base_rating = DEFAULT_D /\ numeric = Some(30))
            /\ CodeGapTag(rating_text, d, UPGRADE)
                  => (base_rating = DEFAULT_D /\ numeric = Some(40))
            /\ CodeGapTag(rating_text, d, DOWNGRADE)
                  => (base_rating = DEFAULT_D /\ numeric = Some(20))

\* C4: for each of the three tables, a rating text that is empty, "N/A", "-"
\* or "NR" after trimming leading and trailing whitespace normalizes to
\* absent, never to a number.
C4_UnratedAbsent ==
    (Converted /\ Strip(rating_text) \in {<<>>, NA, DASH, NR}) => numeric = None

C4_Witness ==
    /\ Converted
    /\ rating_text = <<" ">> \o NR \o <<" ">>
    /\ agency = "S&P"
    /\ numeric = None

\* C5: normalization is total on strings: the result is absent or a number,
\* never an exception, and it is absent whenever the extracted base code is
\* not a key of the table in use.
C5_TotalOnStrings ==
    Converted =>
        /\ Len(numeric) <= 1
        /\ numeric # None => numeric[1] \in Int
        /\ base_rating \notin DOMAIN rating_mappings(agency) => numeric = None

C5_Witness ==
    /\ Converted
    /\ rating_text = <<"S","D","4">>
    /\ base_rating = SD
    /\ base_rating \notin DOMAIN rating_mappings(agency)
    /\ numeric = None

\* C6: a returned score is b + m with b an integer value of the table in
\* 1..22 and m one of -1/3, 0, +1/3, hence lies between 1 - 1/3 and 22 + 1/3;
\* 0 or a bare modifier is never returned.
C6_ScoreShape ==
    (Converted /\ numeric # None) =>
        /\ \E b \in Range(rating_mappings(agency)), m \in {-10, 0, 10} :
              b \in 1..22 /\ numeric[1] = 30 * b + m
        /\ numeric[1] >= 20
        /\ numeric[1] <= 670

C6_Witness ==
    /\ Converted
    /\ agency = "S&P"
    /\ rating_text = DEFAULT_D \o SPACED_DOWNGRADE
    /\ numeric = Some(20)

\* C7: in each of the three tables every key maps to an integer in 1..22 and
\* no two codes share a score; the S&P and Fitch tables cover all 22 levels
\* and the Moody's table only omits levels.
C7_TablesInjective ==
    Converted =>
        LET table == rating_mappings(agency) IN
        /\ \A k \in DOMAIN table : table[k] \in 1..22
        /\ \A k1, k2 \in DOMAIN table : table[k1] = table[k2] => k1 = k2
        /\ agency \in {"S&P", "Fitch"} => Range(table) = 1..22
        /\ agency = "Moody's" =>
              (Range(table) \subseteq 1..22 /\ Range(table) # 1..22)

\* a lookup next to the level the Moody's table omits
C7_Witness ==
    /\ Converted
    /\ agency = "Moody's"
    /\ rating_text = <<"C">>
    /\ numeric = Some(30)

\* C8: "Aa3" under Moody's and "AA-" under S&P both score 19, the S&P and
\* Fitch tables are identical, and for every grade of RATING_GRADES each
\* listed S&P code and each listed Moody's code scores inside the grade's
\* range under its own table.
C8_ScalesAligned ==
    Converted =>
        /\ (agency = "Moody's" /\ rating_text = <<"A","a","3">>)
              => numeric = Some(30 * 19)
        /\ (agency = "S&P" /\ rating_text = <<"A","A","-">>)
              => numeric = Some(30 * 19)
        /\ rating_mappings("S&P") = rating_mappings("Fitch")
        /\ \A g \in DOMAIN RATING_GRADES :
              LET info == RATING_GRADES[g]
                  min_val == info["range"][1]
                  max_val == info["range"][2]
              IN  (agency \in {"S&P", "Moody's"} /\ rating_text \in info[agency])
                    => /\ numeric # None
                       /\ 30 * min_val <= numeric[1]
                       /\ numeric[1] <= 30 * max_val

C8_Witness ==
    /\ Converted
    /\ agency = "Moody's"
    /\ rating_text = <<"A","a","3">>
    /\ numeric = Some(570)

\* C9 as stated: for every rating text without an outlook tag and every
\* table, normalizing the extracted base code gives the same result as
\* normalizing the text itself.
C9_Idempotent ==
    (pc = "renormalized" /\ ~HasTag(rating_text)) => renormalized = numeric

\* C9 as amended: the same, for the texts whose extracted base code is not
\* "SD" or "RD"; and extracting again returns the same code when the code is
\* also not "NR", "-" or empty.
C9_IdempotentExceptDefault ==
    (pc = "renormalized" /\ ~HasTag(rating_text) /\ base_rating \notin {SD, RD}) =>
        /\ renormalized = numeric
        /\ base_rating \notin {NR, DASH, <<>>}
              => extract_base_rating(base_rating) = base_rating

C9_Witness ==
    /\ pc = "renormalized"
    /\ rating_text = <<"A","4">>
    /\ agency = "S&P"
    /\ base_rating = <<"A">>
    /\ numeric = Some(510)
    /\ renormalized = Some(510)

(***************************************************************************)
(* Properties of the label placement.                                      *)
(***************************************************************************)
window_of(v) == IF v = "full" THEN full_window ELSE ig_window

min_distance_of(v) == IF v = "full" THEN full_min_distance ELSE ig_min_distance

\* a displacement of the second label off the first one, at used_y, that
\* lies inside the vertical range of the chart
SlotExists(v, used_y) ==
    IF v = "full"
    THEN \E c \in {used_y + full_min_distance, used_y - full_min_distance} :
            full_ylim_low <= c /\ c <= full_ylim_high
    ELSE \E i \in 1..4 :
            /\ ig_plot_low <= ig_candidates(used_y)[i]
            /\ ig_candidates(used_y)[i] <= ig_plot_high

\* the run placed exactly two points, the second colliding with the first
TwoPointCollision ==
    /\ pc = "done"
    /\ Len(country_data) = 2
    /\ Len(used_positions) = 2
    /\ Abs((country_data[1][1] + label_dx) - (country_data[2][1] + label_dx))
          < window_of(variant)
    /\ Abs(country_data[1][2] - country_data[2][2]) < min_distance_of(variant)

Collected == pc \in {"placing", "done"}

\* the rows the running variant plots: df, or df_filtered
plotted_rows ==
    IF variant = "full" THEN df ELSE SelectSeq(df, investment_grade_row)

present_scores(row) ==
    {row.ratings[c][1] : c \in {c \in 1..3 : row.ratings[c] # None}}

\* the row is a label point: a numeric spread and at least one rating
IsLabelPoint(row) == row.Spread_Numeric # None /\ present_scores(row) # {}

\* the label points in the order the caller supplies them
label_points == SelectSeq(plotted_rows, IsLabelPoint)

\* the best (greatest) present score of a row
best_score(row) ==
    CHOOSE m \in present_scores(row) : \A v \in present_scores(row) : v <= m

\* C11: in both variants, for an input of exactly one point (x, y) the
\* resolved position is (x + label offset, y): y is not displaced.
C11_OnePointUnmoved ==
    (pc = "done" /\ Len(label_points) = 1) =>
        used_positions =
            << <<label_points[1].Spread_Numeric[1] + label_dx,
                 best_score(label_points[1])>> >>

C11_Witness ==
    /\ pc = "done"
    /\ variant = "full"
    /\ Len(label_points) = 1
    /\ Len(df) = 3
    /\ used_positions = << <<38, 670>> >>

\* C12: after a run of either variant the number of placed positions equals
\* the number of label points (plotted countries with a numeric spread and
\* at least one rating), whatever collisions occurred.
C12_OnePositionPerPoint ==
    /\ Len(used_positions) <= Len(country_data)
    /\ Collected => Len(country_data) = Len(label_points)
    /\ pc = "done" => Len(used_positions) = Len(label_points)

\* three labels, the third left on top of the second for want of a free slot
C12_Witness ==
    /\ pc = "done"
    /\ variant = "investment_grade"
    /\ Len(label_points) = 3
    /\ used_positions = << <<8, 670>>, <<8, 652>>, <<8, 652>> >>

\* the sort key of a collected item under the running variant
item_key(item) ==
    <<item[1], IF variant = "investment_grade" THEN item[2] ELSE 0>>

\* a comes strictly before b in the order the variant sorts by
key_before(a, b) ==
    \/ item_key(a)[1] < item_key(b)[1]
    \/ item_key(a)[1] = item_key(b)[1] /\ item_key(a)[2] < item_key(b)[2]

range_low(v) == IF v = "full" THEN full_ylim_low ELSE ig_plot_low
range_high(v) == IF v = "full" THEN full_ylim_high ELSE ig_plot_high

\* C14 (as stated): in both variants every resolved y stays inside the
\* variant's valid vertical range (0..23.5 full, 13.8..22.5 investment
\* grade) after any number of points, the input ratings lying between 2/3
\* and 22 + 1/3.
C14_InsideRange ==
    \A i \in 1..Len(used_positions) :
        /\ range_low(variant) <= used_positions[i][2]
        /\ used_positions[i][2] <= range_high(variant)

\* the labels placed before the k-th
placed_before(k) == SubSeq(used_positions, 1, k - 1)

\* the placed labels a label at (lx, y) collides with in the investment-grade
\* variant
ig_colliding(lx, y, placed) ==
    {j \in 1..Len(placed) :
        /\ Abs(lx - placed[j][1]) < ig_window
        /\ Abs(y - placed[j][2]) < ig_min_distance}

\* the four displacement candidates around used_y, in the order listed
listed_candidates(used_y) ==
    <<used_y + ig_min_distance, used_y - ig_min_distance,
      used_y + (ig_min_distance * 3) \div 2,
      used_y - (ig_min_distance * 3) \div 2>>

in_ig_range(y) == ig_plot_low <= y /\ y <= ig_plot_high

\* the y the claim prescribes for a point (lx, y) that collides first with
\* the placed label number j
prescribed_y(lx, y, placed, j) ==
    LET listed == listed_candidates(placed[j][2])
        inside == {n \in 1..4 : in_ig_range(listed[n])}
        count(n) == Cardinality(ig_colliding(lx, listed[n], placed))
    IN  IF inside = {} THEN y
        ELSE listed[CHOOSE n \in inside :
                        \A m \in inside :
                            /\ count(n) <= count(m)
                            /\ m < n => count(n) < count(m)]

\* C15: in the investment-grade variant a point whose position collides with
\* a placed label gets the y of the in-range candidate among used_y + d,
\* used_y - d, used_y + 1.5 d, used_y - 1.5 d with the fewest collisions
\* against all placed labels in the window (the first listed among equals),
\* also when that candidate still collides; its own y when no candidate is in
\* range.
C15_LeastCollisions ==
    variant = "investment_grade" =>
        \A k \in 1..Len(used_positions) :
            LET lx == used_positions[k][1]
                y == country_data[k][2]
                hit == ig_colliding(lx, y, placed_before(k))
            IN  hit # {} =>
                    used_positions[k][2] =
                        prescribed_y(lx, y, placed_before(k),
                                     CHOOSE j \in hit : \A h \in hit : j <= h)

\* labels at 550 and 568; the third point (550) passes over used_y + d = 568,
\* which collides, and takes used_y - d = 532, which does not
C15_Witness ==
    /\ variant = "investment_grade"
    /\ pc = "done"
    /\ country_data = << <<0, 550, 1>>, <<0, 550, 2>>, <<0, 550, 3>> >>
    /\ used_positions = << <<8, 550>>, <<8, 568>>, <<8, 532>> >>

\* the lower edge of the band the full chart shades as investment grade:
\* score 13, BBB-
investment_grade_floor == 390

\* the countries that reach the placement loop
plotted_countries == {country_data[i][3] : i \in 1..Len(country_data)}

\* C16 (as stated): the investment-grade chart includes exactly the countries
\* whose best agency score is at or above BBB- (score 13): 13 or more is
\* kept, below 13 is dropped.
C16_KeepsFromBBBMinus ==
    (variant = "investment_grade" /\ Collected) =>
        \A i \in 1..Len(df) :
            IsLabelPoint(df[i]) =>
                (df[i].Country \in plotted_countries
                    <=> best_score(df[i]) >= investment_grade_floor)

\* the present scores of a row, added up and counted column by column
score_or_zero(row, c) == IF row.ratings[c] = None THEN 0 ELSE row.ratings[c][1]
score_sum(row) ==
    score_or_zero(row, 1) + score_or_zero(row, 2) + score_or_zero(row, 3)
score_count(row) == Cardinality({c \in 1..3 : row.ratings[c] # None})

\* the row a collected item was made from
row_of(item) == df[item[3]]

\* a plotted row yields a label point exactly when it has a numeric spread
\* and at least one present score, and the point's x is the spread
PointsOfPlottedRows ==
    /\ plotted_countries =
           {label_points[i].Country : i \in 1..Len(label_points)}
    /\ \A i \in 1..Len(country_data) :
           row_of(country_data[i]).Spread_Numeric = Some(country_data[i][1])

\* C17 (as stated): the y of a country's label point is the mean of its
\* present agency scores, paired with its spread as x; a country yields a
\* label point iff it has a numeric spread and at least one present score.
C17_MeanOfScores ==
    Collected =>
        /\ PointsOfPlottedRows
        /\ \A i \in 1..Len(country_data) :
               country_data[i][2] * score_count(row_of(country_data[i]))
                   = score_sum(row_of(country_data[i]))

\* C17 (amended): the y of a country's label point is the greatest of its
\* present agency scores, paired with its spread as x; a country among the
\* rows the variant plots yields a label point iff it has a numeric spread
\* and at least one present score.
C17_BestOfScores ==
    Collected =>
        /\ PointsOfPlottedRows
        /\ \A i \in 1..Len(country_data) :
               /\ country_data[i][2] \in present_scores(row_of(country_data[i]))
               /\ \A v \in present_scores(row_of(country_data[i])) :
                      v <= country_data[i][2]

\* a country rated 13, 12 + 2/3 and one rated 14 + 1/3 twice and 13 + 1/3:
\* the points carry 13 and 14 + 1/3, the means being 12 + 5/6 and 14
C17_Witness ==
    /\ pc = "done"
    /\ variant = "full"
    /\ Len(df) = 3
    /\ df[1].ratings = <<Some(390), Some(380), None>>
    /\ df[2].ratings = <<Some(430), Some(430), Some(400)>>
    /\ df[3].ratings = <<None, None, None>>
    /\ country_data = << <<0, 390, 1>>, <<30, 430, 2>> >>

\* the averages have been added to df; the rows have been categorized
Averaged == pc \in {"averaged", "rows", "placing", "done"}
Categorized == pc \in {"rows", "placing", "done"}

\* a row without a present score has no average, 'No Rating' as its grade
\* and no label point
AbsentAverageUnused ==
    \A i \in 1..Len(df) :
        (Averaged /\ score_count(df[i]) = 0) =>
            /\ df[i].Ratings_Count = 0
            /\ df[i].Average_Rating = None
            /\ Categorized => df[i].Grade_Category = "No Rating"
            /\ df[i].Country \notin plotted_countries

\* C18 (as stated): a country's average rating is the mean of exactly its
\* present agency scores; when none is present (Ratings_Count = 0) the
\* average is absent, never zero, is categorized 'No Rating' and produces
\* no label point.
C18_MeanOfPresent ==
    /\ AbsentAverageUnused
    /\ \A i \in 1..Len(df) :
           (Averaged /\ score_count(df[i]) > 0) =>
               /\ df[i].Ratings_Count = score_count(df[i])
               /\ df[i].Average_Rating # None
               /\ 3 * score_count(df[i]) * df[i].Average_Rating[1]
                      = 10 * score_sum(df[i])

\* C18 (amended): a country's average rating is the mean of exactly its
\* present agency scores rounded to two decimals (at most 0.005 from the
\* mean); when none is present the average is absent, never zero, is
\* categorized 'No Rating' and produces no label point.
C18_RoundedMeanOfPresent ==
    /\ AbsentAverageUnused
    /\ \A i \in 1..Len(df) :
           (Averaged /\ score_count(df[i]) > 0) =>
               /\ df[i].Ratings_Count = score_count(df[i])
               /\ df[i].Average_Rating # None
               /\ 2 * Abs(3 * score_count(df[i]) * df[i].Average_Rating[1]
                              - 10 * score_sum(df[i]))
                      <= 3 * score_count(df[i])

\* scores 22 + 1/3 and 22 average to 22.17; the country without a score has
\* no average, no grade and no label
C18_Witness ==
    /\ pc = "done"
    /\ Len(df) = 2
    /\ df[1].ratings = <<Some(670), Some(660), None>>
    /\ df[1].Average_Rating = Some(2217)
    /\ df[1].Ratings_Count = 2
    /\ df[2].ratings = <<None, None, None>>
    /\ df[2].Spread_Numeric = Some(0)
    /\ df[2].Average_Rating = None
    /\ df[2].Grade_Category = "No Rating"
    /\ plotted_countries = {1}

\* country_data is in the order the variant sorts by
SortedPoints ==
    Collected =>
        \A i, j \in 1..Len(country_data) :
            i < j => ~key_before(country_data[j], country_data[i])

\* C19: during one resolver run the placed list grows monotonically in
\* sorted-point order: processing the k-th point of the sorted points appends
\* exactly one position, that of the k-th point, and leaves the k-1 positions
\* already placed as they are.
C19_PlacedGrowsMonotonically ==
    /\ [](SortedPoints /\ Len(used_positions) <= Len(country_data))
    /\ [][used_positions' # used_positions =>
              /\ Len(used_positions') = Len(used_positions) + 1
              /\ SubSeq(used_positions', 1, Len(used_positions)) = used_positions
              /\ used_positions'[Len(used_positions')][1] =
                     country_data[Len(used_positions')][1] + label_dx
              /\ country_data' = country_data]_vars

\* three points placed one after the other, the second displaced upwards and
\* the third downwards
C19_Witness ==
    /\ pc = "done"
    /\ variant = "full"
    /\ country_data = << <<0, 420, 3>>, <<30, 430, 1>>, <<75, 430, 2>> >>
    /\ used_positions = << <<8, 420>>, <<38, 444>>, <<83, 420>> >>

\* C20: label placement is deterministic given a fixed input order: two runs
\* of a variant on the same ordered rows yield identical resolved positions,
\* whatever offsets the jitter of the scatter markers takes in either run.
C20_TwoRunsAgree ==
    (pc = "done" /\ first_run # None) =>
        used_positions = first_run[1].used_positions

\* a second run whose markers lie elsewhere than those of the first and
\* whose second label is displaced
C20_Witness ==
    /\ pc = "done"
    /\ first_run # None
    /\ scatter # first_run[1].scatter
    /\ Len(used_positions) = 2
    /\ used_positions[2][2] # country_data[2][2]
    /\ used_positions = first_run[1].used_positions

\* the placed labels a label at (lx, y) collides with under variant v:
\* closer than the window horizontally and than the gap vertically
colliding(v, lx, y, placed) ==
    {j \in 1..Len(placed) :
        /\ Abs(lx - placed[j][1]) < window_of(v)
        /\ Abs(y - placed[j][2]) < min_distance_of(v)}

\* C21: in both variants a point is displaced only on a collision: when no
\* placed label lies both within the horizontal window of the point's label
\* x and within the minimum vertical gap of its y, the resolved position is
\* exactly (x + offset, y); in every case the resolved x is x + offset.
C21_DisplacedOnlyOnCollision ==
    \A k \in 1..Len(used_positions) :
        /\ used_positions[k][1] = country_data[k][1] + label_dx
        /\ colliding(variant, country_data[k][1] + label_dx,
                     country_data[k][2], placed_before(k)) = {}
               => used_positions[k][2] = country_data[k][2]

\* the second label is displaced off the first; the third, 75 bp to the
\* right of the first and 45 bp of the second, has the y of the first and
\* 24 thirtieths to the second, collides with neither and stays
C21_Witness ==
    /\ pc = "done"
    /\ variant = "full"
    /\ country_data = << <<0, 420, 1>>, <<30, 420, 2>>, <<75, 420, 3>> >>
    /\ used_positions = << <<8, 420>>, <<38, 444>>, <<83, 420>> >>

\* C22 (as stated): the resolver only reduces collisions: in both variants
\* the resolved position of a point collides with no more placed labels than
\* its undisplaced position (x + offset, y) does.
C22_NeverMoreCollisions ==
    \A k \in 1..Len(used_positions) :
        Cardinality(colliding(variant, used_positions[k][1],
                              used_positions[k][2], placed_before(k)))
            <= Cardinality(colliding(variant, country_data[k][1] + label_dx,
                                     country_data[k][2], placed_before(k)))

\* the nine named grades
named_grades == DOMAIN RATING_GRADES

\* the grades whose range holds an average given in hundredths
grades_holding(avg) ==
    {g \in named_grades :
        /\ 100 * RATING_GRADES[g]["range"][1] <= avg
        /\ avg <= 100 * RATING_GRADES[g]["range"][2]}

\* C23 (as stated): categorize_by_average_rating assigns every present
\* average between 1 and 22, whole or not, to exactly one of the nine named
\* grades; it returns 'No Rating' only when the average is missing.
C23_EveryAverageHasAGrade ==
    Categorized =>
        \A i \in 1..Len(df) :
            LET avg == df[i].Average_Rating
            IN  /\ df[i].Grade_Category = "No Rating" => avg = None
                /\ (avg # None /\ 100 <= avg[1] /\ avg[1] <= 2200) =>
                       /\ df[i].Grade_Category \in named_grades
                       /\ grades_holding(avg[1]) = {df[i].Grade_Category}

(***************************************************************************)
(* Properties of the bond data scraper.                                    *)
(***************************************************************************)
called(name) == \E k \in 1..Len(calls) : calls[k] = name

\* C24: on merge a name of COUNTRY_NAME_MAPPING is an alias of the name it
\* maps to: a spread row named "UK" is joined with a ratings row named
\* "Ukraine" and appears in the merged output.
C24_AliasIsJoined ==
    (pc = "returned" /\ merged_df # None) =>
        \A alias \in DOMAIN COUNTRY_NAME_MAPPING :
            \A i \in 1..Len(spread_df[1]), j \in 1..Len(ratings_df[1].rows) :
                (/\ clean_country_name(spread_df[1][i].Country) = alias
                 /\ clean_country_name(ratings_df[1].rows[j].Country)
                        = COUNTRY_NAME_MAPPING[alias])
                    => \E k \in 1..Len(merged_df[1]) :
                           /\ merged_df[1][k].Country
                                  \in {None, Some(spread_df[1][i].Country)}
                           /\ merged_df[1][k].Spread = spread_df[1][i].Spread
                           /\ merged_df[1][k].Average_Rating
                                  = ratings_df[1].rows[j].Average_Rating

\* C26: when main has returned, a driver that was initialised has been quit,
\* whichever way main was left; the ratings are never scraped after the
\* spread scrape failed, and nothing is merged after either scrape failed.
C26_DriverAlwaysQuit ==
    /\ (pc = "returned" /\ driver # None) =>
           /\ driver = Some("quit")
           /\ calls[Len(calls)] = "quit"
    /\ (driver = None /\ called("setup_driver")) => pc \in {"finally", "returned"}
    /\ spread_df = None =>
           ~called("scrape_credit_ratings") /\ ~called("merge_datasets")
    /\ ratings_df = None => ~called("merge_datasets")

C26_Witness ==
    /\ pc = "returned"
    /\ driver = Some("quit")
    /\ spread_df # None
    /\ ratings_df = None
    /\ calls = <<"setup_driver", "scrape_bond_spreads",
                 "scrape_credit_ratings", "quit">>

(***************************************************************************)
(* Properties of the WGI download.                                         *)
(***************************************************************************)
\* C25: whatever the requests ended in, all six indicators have been
\* requested when download_wgi_data returns; a table made of downloaded
\* records has the six columns calculate_correlation_matrix selects; and the
\* sample data are returned only when no record was downloaded at all.
C25_TableHasSixColumns ==
    pc = "downloaded" =>
        /\ requested = indicators
        /\ wgi_df[1].sample <=> all_data = <<>>
        /\ all_data # <<>> =>
               \A k \in 1..Len(indicator_cols) :
                   has_column(wgi_df[1], indicator_cols[k])

(***************************************************************************)
(* Properties of the label placement under a reordered frame.              *)
(***************************************************************************)
\* C27: in the investment-grade variant the sequence of resolved positions
\* does not depend on the order of the caller's rows: the run on the
\* reordered frame places the same labels in the same order as the first.
C27_OrderIndependent ==
    (variant = "investment_grade" /\ first_run # None /\ pc = "done") =>
        used_positions = first_run[1].used_positions

C27_Witness ==
    /\ variant = "investment_grade"
    /\ pc = "done"
    /\ first_run # None
    /\ df # first_run[1].df
    /\ Len(used_positions) = 2
    /\ country_data[1][1] = country_data[2][1]
    /\ country_data[1][2] < country_data[2][2]
    /\ used_positions[2][2] # country_data[2][2]
    /\ used_positions = first_run[1].used_positions

====
